---- MODULE Spec2Model ----
(***************************************************************************)
(* A model of the ticketing API (FredRome/tickets): the document store     *)
(* (users, queues, tickets), the services that read and write it, and the  *)
(* request handlers (route middleware + controller) in front of them.      *)
(*                                                                         *)
(* A store operation of a service is an operator from the store to the     *)
(* store it leaves and the value it returns.  A handler awaits its store   *)
(* operations one after the other, and the operations of requests handled  *)
(* at the same time interleave: a step of a specification is the arrival   *)
(* of a request, with the code that runs up to its first await, or one     *)
(* store operation of one request, with the code that runs from there up   *)
(* to the next await or to the answer.  A call the ODM rejects before it   *)
(* asks the store anything (a validation or a cast that fails) is no step  *)
(* of its own: the request is answered in the step that reaches the call,  *)
(* unless the handler awaits something else before it (the password hash   *)
(* of register, awaited before the save).                                  *)
(*                                                                         *)
(* Left out, because no handler's control flow reads them: a queue's       *)
(* description, a ticket's tags and updatedAt, a user's name, email and    *)
(* password hash.  Names, titles and contents are drawn already trimmed.   *)
(* Left out of the list requests: the search filter and filters given as   *)
(* arrays.                                                                 *)
(***************************************************************************)
EXTENDS Integers, Sequences, FiniteSets, TLC

(***************************************************************************)
(* Bounds of the model.                                                    *)
(***************************************************************************)
MaxQueues == 2            \* queue ids ever allocated
MaxTickets == 1           \* tickets ever created, in Spec
MaxLifecycleTickets == 1  \* tickets ever created, in SpecLifecycle
MaxPolicyTickets == 1     \* tickets ever created, in SpecPolicy
MaxCommentTickets == 1    \* tickets ever created, in SpecComments
MaxListTickets == 2       \* tickets ever created, in SpecList
MaxEditTickets == 1       \* tickets ever created, in SpecEdits
MaxGateTickets == 1       \* tickets ever created, in SpecGates
MaxAuthorTickets == 1     \* tickets ever created, in SpecAuthors
MaxClock == 2             \* distinct instants the clock goes through
MaxComments == 2          \* comments stored, over all tickets

VARIABLES
  users,      \* user id -> [role]
  queues,     \* queue id -> [name, isDefault]
  nextQid,    \* the next queue id the store hands out (ids are never reused)
  tickets,    \* sequence of tickets; a ticket's id is its index
  now,        \* the clock read by new Date() / Date.now
  resp,       \* the last request (operation, sender's role, the argument
              \* that decides its case) and the answer sent (code, message)
  inflight    \* request slot -> the request suspended at an await (its
              \* operation, sender, target, body, the await it is at and
              \* what it has read so far), if any

vars == <<users, queues, nextQid, tickets, now, resp, inflight>>

(***************************************************************************)
(* Values.                                                                 *)
(***************************************************************************)
NoDate == 0          \* an unset Date field (resolvedAt, closedAt)
NoId == 0            \* no id in the request / an id that resolves to nothing
NoUser == "none"     \* an unset user reference (assignee)
Ghost == "ghost"     \* a well-formed user id that names no user

Roles == {"admin", "agent", "customer"}
Statuses == {"new", "open", "pending", "resolved", "closed"}
Priorities == {"low", "medium", "high", "urgent"}

\* JSON values a request carries that are not strings: the booleans, null,
\* the number 0, the empty array, and a field left out.  A string is
\* written as it is ("" is the empty string), but for the strings "false"
\* and "yes" sent in a boolean field.
JsTrue == "true"
JsFalse == "false"
JsStrFalse == "'false'"
JsYes == "'yes'"
JsUndef == "undefined"
JsNull == "null"
JsZero == "0"
JsEmptyArray == "[]"

\* JavaScript's falsy values: undefined, null, false, 0 and ''.
Falsy(v) == v \in {JsUndef, JsNull, JsFalse, JsZero, ""}

\* JavaScript's truthiness, as `if (queueData.isDefault)` and `a || b` read
\* it: every other value, the empty array and non-empty strings included.
Truthy(v) == ~Falsy(v)

\* The ODM's cast of a Boolean path: true, 'true', 1, '1', 'yes' are true;
\* false, 'false', 0, '0', 'no' are false; null is kept, and reads as false
\* wherever the flag is read (`if (queue.isDefault)`, the filter
\* {isDefault: true}); every other value, the empty string and arrays
\* among them, is refused with a CastError.
BooleanCastError(v) ==
  v \notin {JsTrue, JsYes, JsFalse, JsStrFalse, JsZero, JsNull}

\* The value the cast gives when it does not refuse.
CastBoolean(v) == v \in {JsTrue, JsYes}

\* What a required String path refuses: undefined, null and '' (required),
\* and an array (the cast to String); false and 0 are cast to the strings
\* that spell them and stored.
StringRefused(v) == v \in {JsUndef, JsNull, "", JsEmptyArray}

\* express-validator's isBoolean(): booleans, the numbers 1 and 0 and the
\* strings true/false/1/0 (the value is tested as the string it converts
\* to); an empty array has no element to test and is let through; null
\* and '' are refused.
IsBooleanInput(v) == v \in {JsTrue, JsFalse, JsStrFalse, JsZero, JsEmptyArray}

\* express-validator's notEmpty() refuses a field that is left out, null or
\* '' (each converts to the empty string); false, 0 and an empty array are
\* let through.
IsEmptyInput(v) == v \in {JsUndef, JsNull, ""}

(***************************************************************************)
(* The store, and what a service returns: err = "" on success, else the    *)
(* message of the Error thrown; db is the store as the call leaves it,     *)
(* val the value returned.                                                 *)
(***************************************************************************)
DB == [queues |-> queues, nextQid |-> nextQid, tickets |-> tickets,
       users |-> users]

Ok(db, val) == [err |-> "", db |-> db, val |-> val]
Throw(db, msg) == [err |-> msg, db |-> db, val |-> NoId]

\* The role of a user in the store; "none" for no user.
NoRole == "none"
RoleIn(db, actor) ==
  IF actor \in DOMAIN db.users THEN db.users[actor].role ELSE NoRole

Role(actor) == RoleIn(DB, actor)

(***************************************************************************)
(* QueueService                                                            *)
(***************************************************************************)
Defaults(qs) == {q \in DOMAIN qs : qs[q].isDefault}

NameTaken(qs, name, except) ==
  \E q \in DOMAIN qs : q # except /\ qs[q].name = name

\* A clearing that clears nothing.
ClearDefaultSkip(qs) == qs

\* Queue.updateMany({isDefault: true}, {$set: {isDefault: false}})
ClearDefault(qs) == [q \in DOMAIN qs |-> [qs[q] EXCEPT !.isDefault = FALSE]]

\* The first await of createQueue and updateQueue: when the request's
\* isDefault is truthy, every default flag is cleared.
ClearIfDefault(db, data) ==
  IF Truthy(data.isDefault) THEN [db EXCEPT !.queues = ClearDefault(@)]
  ELSE db

\* The validation queue.save() runs before the store is asked anything:
\* name is a required String, isDefault a Boolean (false when left out).
QueueInvalid(data) ==
  \/ StringRefused(data.name)
  \/ data.isDefault # JsUndef /\ BooleanCastError(data.isDefault)

\* new Queue(queueData); queue.save(): the validation, then the insert,
\* which the unique index on name rejects for a taken name.
SaveQueue(db, data) ==
  LET id == db.nextQid
      doc == [name |-> data.name,
              isDefault |-> IF data.isDefault = JsUndef THEN FALSE
                            ELSE CastBoolean(data.isDefault)]
  IN IF QueueInvalid(data) THEN Throw(db, "Queue validation failed")
     ELSE IF NameTaken(db.queues, data.name, NoId)
       THEN Throw(db, "E11000 duplicate key error")
     ELSE Ok([db EXCEPT !.queues = @ @@ (id :> doc), !.nextQid = id + 1], id)

QueueService_getQueueById(db, queueId) ==
  IF queueId \in DOMAIN db.queues THEN Ok(db, queueId)
  ELSE Throw(db, "Queue not found")

\* A write of one queue's fields that clears every other default flag in the
\* same step.
SetQueueFieldsExclusive(db, queueId, data) ==
  LET old == db.queues[queueId]
      doc == [name |-> IF data.name = JsUndef THEN old.name ELSE data.name,
              isDefault |-> IF data.isDefault = JsUndef THEN old.isDefault
                            ELSE CastBoolean(data.isDefault)]
  IN [db EXCEPT !.queues = [ClearDefault(@) EXCEPT ![queueId] = doc]]

\* {$set: queueData} on one queue: keys left undefined are dropped from the
\* update, the other queues are not touched.
SetQueueFields(db, queueId, data) ==
  LET old == db.queues[queueId]
      doc == [name |-> IF data.name = JsUndef THEN old.name ELSE data.name,
              isDefault |-> IF data.isDefault = JsUndef THEN old.isDefault
                            ELSE CastBoolean(data.isDefault)]
  IN [db EXCEPT !.queues[queueId] = doc]

\* The cast of {$set: queueData}, made before the store is asked anything:
\* name to String, isDefault to Boolean.  No validator runs on an update.
QueueUpdateCastError(data) ==
  \/ data.name = JsEmptyArray
  \/ data.isDefault # JsUndef /\ BooleanCastError(data.isDefault)

\* findByIdAndUpdate(queueId, {$set: queueData}, {new: true}): the cast,
\* then the update, which the unique index on name rejects for a taken
\* name.
FindQueueAndUpdate(db, queueId, data) ==
  IF QueueUpdateCastError(data) THEN Throw(db, "Cast failed")
  ELSE IF queueId \notin DOMAIN db.queues THEN Throw(db, "Queue not found")
  ELSE IF data.name # JsUndef /\ NameTaken(db.queues, data.name, queueId)
    THEN Throw(db, "E11000 duplicate key error")
  ELSE Ok(SetQueueFields(db, queueId, data), queueId)

\* Queue.findByIdAndDelete(queueId): removes the queue if it is there.
RemoveQueue(db, queueId) ==
  [db EXCEPT !.queues = [q \in DOMAIN @ \ {queueId} |-> @[q]]]

\* A check without the default-queue guard.
DeleteQueueCheckAny(db, queueId) ==
  LET got == QueueService_getQueueById(db, queueId)
  IN IF got.err # "" THEN Throw(db, got.err) ELSE Ok(db, queueId)

\* The first await of deleteQueue: getQueueById and the test of the
\* queue's isDefault, as read then.
DeleteQueueCheck(db, queueId) ==
  LET got == QueueService_getQueueById(db, queueId)
  IN IF got.err # "" THEN Throw(db, got.err)
     ELSE IF db.queues[queueId].isDefault
       THEN Throw(db, "Cannot delete the default queue")
     ELSE Ok(db, queueId)

\* A lookup that takes the first queue, default or not.
QueueService_getDefaultQueueAny(db) ==
  IF DOMAIN db.queues = {} THEN Throw(db, "No default queue found")
  ELSE Ok(db, CHOOSE q \in DOMAIN db.queues :
                 \A r \in DOMAIN db.queues : q <= r)

\* Queue.findOne({isDefault: true}): the first match in the store's order.
QueueService_getDefaultQueue(db) ==
  IF Defaults(db.queues) = {} THEN Throw(db, "No default queue found")
  ELSE Ok(db, CHOOSE q \in Defaults(db.queues) :
                 \A r \in Defaults(db.queues) : q <= r)

(***************************************************************************)
(* TicketService                                                           *)
(***************************************************************************)
TicketIds(db) == 1 .. Len(db.tickets)

\* A request body or an update document as the set of keys it carries.
Has(doc, key) == key \in DOMAIN doc

\* doc without the key (JavaScript's delete).
Without(doc, key) == [k \in DOMAIN doc \ {key} |-> doc[k]]

\* doc with key set to val (JavaScript's assignment to a property).
With(doc, key, val) ==
  [k \in DOMAIN doc \cup {key} |-> IF k = key THEN val ELSE doc[k]]

TicketService_getTicketById(db, ticketId) ==
  IF ticketId \in TicketIds(db) THEN Ok(db, ticketId)
  ELSE Throw(db, "Ticket not found")

\* new Ticket({...}): priority is ticketData.priority || 'medium', status
\* defaults to 'new', comments to the empty array.  commentsNull says that
\* the path comments holds null instead of an array (comments is then
\* empty).
NewTicket(data, queueId, at) ==
  [title |-> data.title,
   description |-> data.description,
   status |-> "new",
   priority |-> IF Truthy(data.priority) THEN data.priority ELSE "medium",
   customer |-> data.customer,
   assignee |-> NoUser,
   queue |-> queueId,
   comments |-> <<>>,
   commentsNull |-> FALSE,
   createdAt |-> at,
   resolvedAt |-> NoDate,
   closedAt |-> NoDate]

\* The validation ticket.save() runs before the store is asked anything:
\* title and description are required Strings, priority is one of the
\* enum.
TicketInvalid(doc) ==
  \/ StringRefused(doc.title)
  \/ StringRefused(doc.description)
  \/ doc.priority \notin Priorities

\* ticket.save(): the validation, then the insert.
SaveTicket(db, data, queueId, at) ==
  LET doc == NewTicket(data, queueId, at)
  IN IF TicketInvalid(doc) THEN Throw(db, "Ticket validation failed")
     ELSE Ok([db EXCEPT !.tickets = Append(@, doc)], Len(db.tickets) + 1)

\* The queue createTicket creates when getDefaultQueue throws.
GeneralQueue == [name |-> "General", isDefault |-> JsTrue]

\* The paths of the Ticket schema a $set may write: the ODM drops every
\* other key (strict mode), and createdAt is immutable.
SettablePaths ==
  {"title", "description", "status", "priority", "customer", "assignee",
   "queue", "comments", "resolvedAt", "closedAt"}

\* A key of an update document that is a dotted path into the comments
\* array, 'comments.0.content': the ODM resolves it to the String path
\* content of the embedded comment and the store sets that element's field.
FirstCommentContent == "comments.0.content"

\* {$set: {'comments.0.content': v}} on the comments array: the first
\* comment's content is overwritten; on an empty array the store creates
\* the element, a document with content alone.
SetFirstContent(comments, v) ==
  IF Len(comments) = 0
    THEN <<[content |-> v, author |-> NoUser, isInternal |-> FALSE,
            createdAt |-> NoDate]>>
  ELSE [comments EXCEPT ![1].content = v]

\* Likewise 'comments.0.isInternal', a Boolean path of the embedded comment.
FirstCommentInternal == "comments.0.isInternal"

SetFirstInternal(comments, v) ==
  IF Len(comments) = 0
    THEN <<[content |-> "", author |-> NoUser, isInternal |-> CastBoolean(v),
            createdAt |-> NoDate]>>
  ELSE [comments EXCEPT ![1].isInternal = CastBoolean(v)]

\* Ticket.findByIdAndUpdate(id, {$set: doc}): no validators run on update.
\* A comments key that reaches the $set carries a value that is not an
\* array (null, '', 0, false): once set, the ticket holds no comment, and
\* with null the path holds null.
SetFields(ticket, doc) ==
  LET top == [k \in DOMAIN ticket |->
                IF k = "commentsNull"
                  THEN IF Has(doc, "comments") THEN doc.comments = JsNull
                       ELSE ticket[k]
                ELSE IF k \in SettablePaths /\ Has(doc, k)
                  THEN IF k = "comments" THEN <<>> ELSE doc[k]
                ELSE ticket[k]]
      c1 == IF Has(doc, FirstCommentContent)
              THEN SetFirstContent(top.comments, doc[FirstCommentContent])
            ELSE top.comments
      c2 == IF Has(doc, FirstCommentInternal)
              THEN SetFirstInternal(c1, doc[FirstCommentInternal])
            ELSE c1
  IN [top EXCEPT !.comments = c2]

\* The status transitions of updateTicket: the update document with
\* resolvedAt / closedAt stamped when the status enters resolved / closed.
Stamp(doc, current, at) ==
  LET d1 == IF doc.status = "resolved" /\ current.status # "resolved"
              THEN With(doc, "resolvedAt", at) ELSE doc
  IN IF doc.status = "closed" /\ current.status # "closed"
       THEN With(d1, "closedAt", at) ELSE d1

\* `if (ticketData.comments) delete ticketData.comments`: the key is
\* dropped when its value is truthy (an array, empty or not), and kept when
\* it is falsy.
WithoutComments(ticketData) ==
  IF Has(ticketData, "comments") /\ Truthy(ticketData.comments)
    THEN Without(ticketData, "comments")
  ELSE ticketData

\* The cast of {$set: doc}, made before the store is asked anything; the
\* message of the CastError, or "".  Whether the ODM casts a value that is
\* not an array to the path comments or refuses it is not decided by this
\* code: refuse is the outcome taken.  An array is refused for a String
\* path (title, description, status, priority, a comment's content), and
\* for a Boolean path what the cast to Boolean refuses.
TicketUpdateCast(doc, refuse) ==
  IF Has(doc, "comments") /\ refuse
    THEN "Cast to Array failed at path comments"
  ELSE IF \E k \in {"title", "description", "status", "priority",
                     FirstCommentContent} :
            Has(doc, k) /\ doc[k] = JsEmptyArray
    THEN "Cast to string failed"
  ELSE IF Has(doc, FirstCommentInternal)
            /\ BooleanCastError(doc[FirstCommentInternal])
    THEN "Cast to Boolean failed"
  ELSE ""

\* The store refuses a $set of a path into the comments of a ticket whose
\* comments are null, or are set by the same update.
IntoNoArray(ticket, doc) ==
  /\ Has(doc, FirstCommentContent) \/ Has(doc, FirstCommentInternal)
  /\ ticket.commentsNull \/ Has(doc, "comments")

\* Ticket.findByIdAndUpdate(ticketId, {$set: doc}, {new: true}): the cast,
\* then the update.
FindTicketAndUpdate(db, ticketId, doc, refuse) ==
  IF TicketUpdateCast(doc, refuse) # ""
    THEN Throw(db, TicketUpdateCast(doc, refuse))
  ELSE IF ticketId \notin TicketIds(db) THEN Throw(db, "Ticket not found")
  ELSE IF IntoNoArray(db.tickets[ticketId], doc)
    THEN Throw(db, "Cannot create field in element {comments: null}")
  ELSE Ok([db EXCEPT !.tickets[ticketId] = SetFields(@, doc)], ticketId)

\* commentData: isInternal is comment.isInternal || false, cast by the
\* ODM; createdAt is the new Date() taken when the service is called.
CommentData(comment, at) ==
  [content |-> comment.content,
   author |-> comment.author,
   isInternal |-> CastBoolean(IF Truthy(comment.isInternal)
                                THEN comment.isInternal ELSE JsFalse),
   createdAt |-> at]

\* The cast of {$push: {comments: commentData}}, made before the store is
\* asked anything: content to String, isInternal (comment.isInternal ||
\* false) to Boolean.
CommentCastError(comment) ==
  \/ comment.content = JsEmptyArray
  \/ Truthy(comment.isInternal) /\ BooleanCastError(comment.isInternal)

\* A comment put first rather than last.
TicketService_addCommentFront(db, ticketId, comment, at) ==
  IF CommentCastError(comment) THEN Throw(db, "Cast failed")
  ELSE IF ticketId \notin TicketIds(db) THEN Throw(db, "Ticket not found")
  ELSE IF db.tickets[ticketId].commentsNull
    THEN Throw(db, "The field 'comments' must be an array")
  ELSE Ok([db EXCEPT !.tickets[ticketId].comments =
             <<CommentData(comment, at)>> \o @],
          ticketId)

\* findByIdAndUpdate(ticketId, {$push: {comments: commentData}}): the
\* cast, then the update, which the store refuses when the ticket's
\* comments are null.
TicketService_addComment(db, ticketId, comment, at) ==
  IF CommentCastError(comment) THEN Throw(db, "Cast failed")
  ELSE IF ticketId \notin TicketIds(db) THEN Throw(db, "Ticket not found")
  ELSE IF db.tickets[ticketId].commentsNull
    THEN Throw(db, "The field 'comments' must be an array")
  ELSE Ok([db EXCEPT !.tickets[ticketId].comments =
             Append(@, CommentData(comment, at))],
          ticketId)

\* {$set: {assignee, status: {$cond: [...]}}} is an update document, not an
\* aggregation pipeline: $cond is not evaluated, the ODM casts the object
\* {$cond: ...} to the String path status, the cast fails and the call
\* throws before the store is asked anything.
TicketService_assignTicket(db, ticketId, assigneeId) ==
  Throw(db, "Cast to string failed at path status")

(***************************************************************************)
(* UserService                                                             *)
(***************************************************************************)
\* new User({...}); user.save(): the role is userData.role || 'customer',
\* one of admin, agent and customer; the email is unique.
SaveUser(db, email, role) ==
  LET doc == [role |-> IF Truthy(role) THEN role ELSE "customer"]
  IN IF doc.role \notin Roles THEN Throw(db, "User validation failed")
     ELSE IF email \in DOMAIN db.users
       THEN Throw(db, "E11000 duplicate key error")
     ELSE Ok([db EXCEPT !.users = @ @@ (email :> doc)], email)

\* `if (userData.role) delete userData.role`: a truthy role is dropped, a
\* falsy one is kept.
WithoutRole(userData) ==
  IF Has(userData, "role") /\ Truthy(userData.role)
    THEN Without(userData, "role")
  ELSE userData

\* User.findByIdAndUpdate(userId, {$set: userData}, {new: true}): no
\* validators run on update.  The other fields (name, password) are not
\* part of the model.
FindUserAndUpdate(db, userId, doc) ==
  IF userId \notin DOMAIN db.users THEN Throw(db, "User not found")
  ELSE Ok([db EXCEPT !.users[userId] =
             [k \in DOMAIN @ |-> IF Has(doc, k) THEN doc[k] ELSE @[k]]],
          userId)

UserService_updateUser(db, userId, userData) ==
  FindUserAndUpdate(db, userId, WithoutRole(userData))

(***************************************************************************)
(* Requests.  A request in progress is the operation asked for, the user   *)
(* who sent it, the role authenticate read for that user, the id in its    *)
(* path, its body, what the record of the answer says of it (arg), the     *)
(* await it has reached (pc) and what the handler holds in its local       *)
(* variables (local).                                                      *)
(***************************************************************************)
NoLocal == [none |-> TRUE]

\* A slot with no request in it.
Idle ==
  [op |-> "none", actor |-> NoUser, role |-> NoRole, id |-> NoId,
   body |-> NoLocal, arg |-> "", pc |-> "idle", local |-> NoLocal]

\* A request as it arrives.
Request(op, actor, id, body, arg) ==
  [op |-> op, actor |-> actor, role |-> NoRole, id |-> id, body |-> body,
   arg |-> arg, pc |-> "arrive", local |-> NoLocal]

\* What a step of a handler leaves: the store, and either the answer sent
\* (req is Idle), with its status code and message and the ticket or list
\* sent (body; NoId: none), or the request suspended at its next await
\* (code 0).
Done(code, msg, db, body) ==
  [code |-> code, msg |-> msg, db |-> db, body |-> body, req |-> Idle]

Await(db, r, pc, local) ==
  [code |-> 0, msg |-> "", db |-> db, body |-> NoId,
   req |-> [r EXCEPT !.pc = pc, !.local = local]]

\* The try/catch of a controller around the last call of its service: the
\* error's message under errCode, or the result under okCode.
Sent(res, okCode, errCode) ==
  IF res.err # "" THEN Done(errCode, res.err, res.db, NoId)
  ELSE Done(okCode, "", res.db, res.val)

(***************************************************************************)
(* Route middleware and controllers, one step per await.  Every request    *)
(* to the queue and ticket routes carries a valid token: when it arrives,  *)
(* authenticate verifies the token and awaits User.findById (pc "auth");   *)
(* the step of that read goes on through authorizeRoles, the validation    *)
(* and the controller up to the first await of the service.                *)
(***************************************************************************)
\* authenticate: req.user is the user User.findById returns.
Authenticated(db, r) == [r EXCEPT !.role = RoleIn(db, r.actor)]

\* authenticate, when User.findById returns no user.
UserNotFound(db) == Done(401, "Invalid token. User not found.", db, NoId)

\* A gate that lets every role through.
AuthorizedAny(role, roles) == TRUE

\* authorizeRoles(...roles)
Authorized(role, roles) == role \in roles

RoleDenied(role) ==
  "Role " \o role \o " is not authorized to access this resource"

\* queue.save() is reached: a queue the validation refuses is answered
\* 500 with no store operation, another is awaited at the insert.
AwaitSaveQueue(db, r) ==
  IF QueueInvalid(r.body) THEN Done(500, "Queue validation failed", db, NoId)
  ELSE Await(db, r, "save", NoLocal)

\* QueueController.createQueue behind authorizeRoles('admin') and
\* createQueueValidation (name notEmpty): the updateMany when isDefault is
\* truthy, then the save.
CreateQueueStep(db, r) ==
  CASE r.pc = "auth" ->
         LET q == Authenticated(db, r)
         IN IF ~Authorized(q.role, {"admin"})
              THEN Done(403, RoleDenied(q.role), db, NoId)
            ELSE IF IsEmptyInput(q.body.name)
              THEN Done(400, "Queue name is required", db, NoId)
            ELSE IF Truthy(q.body.isDefault)
              THEN Await(db, q, "clear", NoLocal)
            ELSE AwaitSaveQueue(db, q)
    [] r.pc = "clear" -> AwaitSaveQueue(ClearIfDefault(db, r.body), r)
    [] OTHER -> Sent([SaveQueue(db, r.body) EXCEPT !.val = NoId], 201, 500)

\* QueueController.getQueueById: the findById.
GetQueueStep(db, r) ==
  IF r.pc = "auth" THEN Await(db, Authenticated(db, r), "find", NoLocal)
  ELSE Sent([QueueService_getQueueById(db, r.id) EXCEPT !.val = NoId],
            200, 404)

\* The findByIdAndUpdate of a queue is reached: an update the cast refuses
\* is answered 500 with no store operation, another is awaited.
AwaitQueueUpdate(db, r) ==
  IF QueueUpdateCastError(r.body) THEN Done(500, "Cast failed", db, NoId)
  ELSE Await(db, r, "write", NoLocal)

\* QueueController.updateQueue behind authorizeRoles('admin') and
\* updateQueueValidation (isDefault optional, isBoolean): the updateMany
\* when isDefault is truthy, then the findByIdAndUpdate.
UpdateQueueStep(db, r) ==
  CASE r.pc = "auth" ->
         LET q == Authenticated(db, r)
         IN IF ~Authorized(q.role, {"admin"})
              THEN Done(403, RoleDenied(q.role), db, NoId)
            ELSE IF q.body.isDefault # JsUndef
                      /\ ~IsBooleanInput(q.body.isDefault)
              THEN Done(400, "Invalid value", db, NoId)
            ELSE IF Truthy(q.body.isDefault)
              THEN Await(db, q, "clear", NoLocal)
            ELSE AwaitQueueUpdate(db, q)
    [] r.pc = "clear" -> AwaitQueueUpdate(ClearIfDefault(db, r.body), r)
    [] OTHER -> Sent([FindQueueAndUpdate(db, r.id, r.body) EXCEPT !.val = NoId],
                     200, 500)

\* QueueController.deleteQueue behind authorizeRoles('admin'): getQueueById
\* with the test of isDefault, then the findByIdAndDelete.
DeleteQueueStep(db, r) ==
  CASE r.pc = "auth" ->
         LET q == Authenticated(db, r)
         IN IF ~Authorized(q.role, {"admin"})
              THEN Done(403, RoleDenied(q.role), db, NoId)
            ELSE Await(db, q, "check", NoLocal)
    [] r.pc = "check" ->
         LET checked == DeleteQueueCheck(db, r.id)
         IN IF checked.err # "" THEN Done(500, checked.err, db, NoId)
            ELSE Await(db, r, "remove", NoLocal)
    [] OTHER -> Done(200, "", RemoveQueue(db, r.id), NoId)

\* createTicketValidation: title and description notEmpty, priority isIn
\* unless left out; the message of the first error.  isIn tests the
\* elements of an array: an empty array has none to refuse and is let
\* through.
CreateTicketInvalid(body) ==
  IF IsEmptyInput(body.title) THEN "Title is required"
  ELSE IF IsEmptyInput(body.description) THEN "Description is required"
  ELSE IF body.priority # JsUndef
            /\ body.priority \notin Priorities \cup {JsEmptyArray}
    THEN "Invalid value"
  ELSE ""

\* What the controller hands to the service.
TicketData(r) ==
  [title |-> r.body.title, description |-> r.body.description,
   priority |-> r.body.priority, customer |-> r.actor, queue |-> r.body.queue]

\* ticket.save() is reached: a ticket the validation refuses is answered
\* 500 with no store operation; for another the handler holds new
\* Ticket({...}) with its createdAt while the insert is awaited.
AwaitSave(db, r, queueId, at) ==
  IF TicketInvalid(NewTicket(TicketData(r), queueId, at))
    THEN Done(500, "Ticket validation failed", db, NoId)
  ELSE Await(db, r, "save", [queue |-> queueId, at |-> at])

\* TicketController.createTicket: without a queue, getDefaultQueue and, when
\* it throws, createQueue's updateMany and save of 'General'; then the save
\* of the ticket; then getTicketById.
CreateTicketStep(db, r, at) ==
  CASE r.pc = "auth" ->
         LET q == Authenticated(db, r)
         IN IF CreateTicketInvalid(q.body) # ""
              THEN Done(400, CreateTicketInvalid(q.body), db, NoId)
            ELSE IF q.body.queue # NoId
              THEN AwaitSave(db, q, q.body.queue, at)
            ELSE Await(db, q, "default", NoLocal)
    [] r.pc = "default" ->
         LET found == QueueService_getDefaultQueue(db)
         IN IF found.err = "" THEN AwaitSave(db, r, found.val, at)
            ELSE Await(db, r, "clear", NoLocal)
    [] r.pc = "clear" ->
         Await(ClearIfDefault(db, GeneralQueue), r, "general", NoLocal)
    [] r.pc = "general" ->
         LET made == SaveQueue(db, GeneralQueue)
         IN IF made.err # "" THEN Done(500, made.err, made.db, NoId)
            ELSE AwaitSave(made.db, r, made.val, at)
    [] r.pc = "save" ->
         LET saved == SaveTicket(db, TicketData(r), r.local.queue, r.local.at)
         IN IF saved.err # "" THEN Done(500, saved.err, db, NoId)
            ELSE Await(saved.db, r, "read", [ticket |-> saved.val])
    [] OTHER ->
         Sent(TicketService_getTicketById(db, r.local.ticket), 201, 500)

\* The ownership test of the ticket controllers: req.user's role is
\* customer, the ticket's customer is populated (the reference resolves to
\* a user) and is not the actor.
NotOwner(db, r, ticketId) ==
  /\ r.role = "customer"
  /\ db.tickets[ticketId].customer \in DOMAIN db.users
  /\ db.tickets[ticketId].customer # r.actor

\* TicketController.getTicketById: the findById, then the ownership test.
GetTicketStep(db, r) ==
  IF r.pc = "auth" THEN Await(db, Authenticated(db, r), "find", NoLocal)
  ELSE LET got == TicketService_getTicketById(db, r.id)
       IN IF got.err # "" THEN Done(404, got.err, db, NoId)
          ELSE IF NotOwner(db, r, r.id)
            THEN Done(403, "Not authorized to access this ticket", db, NoId)
          ELSE Done(200, "", db, r.id)

\* updateTicketValidation: status and priority isIn unless left out; an
\* empty array has no element to refuse and is let through.
ValidUpdate(body) ==
  /\ Has(body, "status") => body.status \in Statuses \cup {JsEmptyArray}
  /\ Has(body, "priority") => body.priority \in Priorities \cup {JsEmptyArray}

\* A customer allowed every settable path.
AllowedUpdatesAll == SettablePaths

AllowedUpdates == {"title", "description"}

\* `if (ticketData.status)`: the update carries a truthy status.
HasStatus(ticketData) ==
  Has(ticketData, "status") /\ Truthy(ticketData.status)

\* The findByIdAndUpdate of a ticket is reached: an update the cast refuses
\* is answered 500 with no store operation, another is awaited.
AwaitUpdate(db, r, doc, refuse) ==
  IF TicketUpdateCast(doc, refuse) # ""
    THEN Done(500, TicketUpdateCast(doc, refuse), db, NoId)
  ELSE Await(db, r, "write", [doc |-> doc])

\* TicketController.updateTicket: the controller's getTicketById; with a
\* status in the body, the service's findById, after which the timestamps
\* are decided; then the findByIdAndUpdate.
UpdateTicketStep(db, r, at, refuse) ==
  CASE r.pc = "auth" ->
         LET q == Authenticated(db, r)
         IN IF ~ValidUpdate(q.body) THEN Done(400, "Invalid value", db, NoId)
            ELSE Await(db, q, "check", NoLocal)
    [] r.pc = "check" ->
         IF TicketService_getTicketById(db, r.id).err # ""
           THEN Done(500, "Ticket not found", db, NoId)
         ELSE IF NotOwner(db, r, r.id)
           THEN Done(403, "Not authorized to update this ticket", db, NoId)
         ELSE IF r.role = "customer"
                   /\ \E k \in DOMAIN r.body : k \notin AllowedUpdates
           THEN Done(403, "Customers can only update title and description",
                     db, NoId)
         ELSE IF HasStatus(WithoutComments(r.body))
           THEN Await(db, r, "read", [doc |-> WithoutComments(r.body)])
         ELSE AwaitUpdate(db, r, WithoutComments(r.body), refuse)
    [] r.pc = "read" ->
         IF r.id \notin TicketIds(db)
           THEN Done(500, "Ticket not found", db, NoId)
         ELSE AwaitUpdate(db, r, Stamp(r.local.doc, db.tickets[r.id], at),
                          refuse)
    [] OTHER ->
         Sent(FindTicketAndUpdate(db, r.id, r.local.doc, FALSE), 200, 500)

\* addCommentValidation: content notEmpty, isInternal isBoolean unless left
\* out; the message of the first error.
AddCommentInvalid(body) ==
  IF IsEmptyInput(body.content) THEN "Comment content is required"
  ELSE IF body.isInternal # JsUndef /\ ~IsBooleanInput(body.isInternal)
    THEN "Invalid value"
  ELSE ""

\* req.user.role === 'customer' && req.body.isInternal
InternalDenied(r) == r.role = "customer" /\ Truthy(r.body.isInternal)

\* TicketController.addComment: the controller's getTicketById, after which
\* the service builds the comment with createdAt: new Date(); then the
\* findByIdAndUpdate that pushes it, answered 500 with no store operation
\* when the cast refuses the comment.
AddCommentStep(db, r, at) ==
  CASE r.pc = "auth" ->
         LET q == Authenticated(db, r)
         IN IF AddCommentInvalid(q.body) # ""
              THEN Done(400, AddCommentInvalid(q.body), db, NoId)
            ELSE IF InternalDenied(q)
              THEN Done(403, "Customers cannot create internal comments",
                        db, NoId)
            ELSE Await(db, q, "check", NoLocal)
    [] r.pc = "check" ->
         IF TicketService_getTicketById(db, r.id).err # ""
           THEN Done(500, "Ticket not found", db, NoId)
         ELSE IF NotOwner(db, r, r.id)
           THEN Done(403, "Not authorized to comment on this ticket", db, NoId)
         ELSE IF CommentCastError(r.body)
           THEN Done(500, "Cast failed", db, NoId)
         ELSE Await(db, r, "push", [at |-> at])
    [] OTHER ->
         Sent(TicketService_addComment(db, r.id,
                [content |-> r.body.content, author |-> r.actor,
                 isInternal |-> r.body.isInternal], r.local.at), 200, 500)

\* TicketController.assignTicket behind authorizeRoles('admin', 'agent') and
\* assignTicketValidation (assigneeId notEmpty, isMongoId; the ids of the
\* model are well-formed): the service's findByIdAndUpdate throws at its
\* cast, so that the request is answered with no store operation after the
\* read of authenticate.
AssignTicketStep(db, r) ==
  LET q == Authenticated(db, r)
  IN IF ~Authorized(q.role, {"admin", "agent"})
       THEN Done(403, RoleDenied(q.role), db, NoId)
     ELSE IF IsEmptyInput(q.body.assigneeId)
       THEN Done(400, "Assignee ID is required", db, NoId)
     ELSE Sent(TicketService_assignTicket(db, q.id, q.body.assigneeId),
               200, 500)

\* TicketController.moveTicketQueue behind authorizeRoles('admin', 'agent')
\* and moveTicketQueueValidation (queueId notEmpty, isMongoId): the
\* service's getQueueById, then the findByIdAndUpdate of the ticket.
MoveTicketStep(db, r) ==
  CASE r.pc = "auth" ->
         LET q == Authenticated(db, r)
         IN IF ~Authorized(q.role, {"admin", "agent"})
              THEN Done(403, RoleDenied(q.role), db, NoId)
            ELSE IF q.body.queueId = NoId
              THEN Done(400, "Queue ID is required", db, NoId)
            ELSE Await(db, q, "queue", NoLocal)
    [] r.pc = "queue" ->
         LET got == QueueService_getQueueById(db, r.body.queueId)
         IN IF got.err # "" THEN Done(500, got.err, db, NoId)
            ELSE Await(db, r, "write", NoLocal)
    [] OTHER ->
         Sent(FindTicketAndUpdate(db, r.id, [queue |-> r.body.queueId], FALSE),
              200, 500)

\* AuthController.register (no authenticate before it): the findOne by
\* email, after which the service awaits bcrypt.genSalt and bcrypt.hash
\* and other requests may run; then the save, with its validation.
RegisterStep(db, r) ==
  IF r.pc = "find"
    THEN IF r.body.email \in DOMAIN db.users
           THEN Done(500, "User already exists with this email", db, NoId)
         ELSE Await(db, r, "save", NoLocal)
  ELSE Sent(SaveUser(db, r.body.email, r.body.role), 201, 500)

\* UserService.updateUser, called with the id and the update (no route
\* leads to it): the findByIdAndUpdate of the update it was left with.
UpdateUserStep(db, r) ==
  Sent(FindUserAndUpdate(db, r.body.userId, r.local.doc), 200, 500)

(***************************************************************************)
(* Listing.                                                                *)
(***************************************************************************)
\* A filter of the query string; undefined when left out.
Filter(filters, key) == IF Has(filters, key) THEN filters[key] ELSE JsUndef

\* The query getTickets builds: `if (filters.status) query.status = ...`, a
\* falsy filter ('' or left out) puts no condition.  A queue is given by
\* its id, or left out (NoId).
Matches(ticket, filters) ==
  /\ Truthy(Filter(filters, "status")) => ticket.status = filters.status
  /\ Truthy(Filter(filters, "priority")) => ticket.priority = filters.priority
  /\ (Has(filters, "queue") /\ filters.queue # NoId)
       => ticket.queue = filters.queue
  /\ Truthy(Filter(filters, "assignee")) => ticket.assignee = filters.assignee
  /\ Truthy(Filter(filters, "customer")) => ticket.customer = filters.customer

\* The sort key createdAt is not unique, and the store returns documents of
\* equal key in an order of its choosing, which it may choose anew for each
\* query: a tie order ranks the tickets (rank 1 comes first among equals).
TieOrders(db) ==
  {r \in [TicketIds(db) -> TicketIds(db)] :
     \A i, j \in TicketIds(db) : r[i] = r[j] => i = j}

\* The tie orders the list requests are handled under: the order the
\* tickets were stored in, and its reverse.
TieInputs(db) ==
  {r \in TieOrders(db) :
     \/ \A i \in TicketIds(db) : r[i] = i
     \/ \A i \in TicketIds(db) : r[i] = Len(db.tickets) + 1 - i}

\* .sort({createdAt: -1}): newest first; tickets created at the same
\* instant come in the order the store chose for the query.
RECURSIVE SortDesc(_, _, _)
SortDesc(db, ids, tie) ==
  IF ids = {} THEN <<>>
  ELSE LET first == CHOOSE i \in ids : \A j \in ids :
                      \/ db.tickets[i].createdAt > db.tickets[j].createdAt
                      \/ /\ db.tickets[i].createdAt = db.tickets[j].createdAt
                         /\ tie[i] <= tie[j]
       IN <<first>> \o SortDesc(db, ids \ {first}, tie)

\* page and limit arrive as the digits of the query string, or are left
\* out; the arithmetic and the cursor read them as the numbers they spell.
\* filters.page || 1, filters.limit || 10: 0 is falsy.
PageOf(filters) ==
  IF Has(filters, "page") /\ filters.page # 0 THEN filters.page ELSE 1
LimitOf(filters) ==
  IF Has(filters, "limit") /\ filters.limit # 0 THEN filters.limit ELSE 10

\* Ticket.countDocuments(query)
CountTickets(db, filters) ==
  Cardinality({i \in TicketIds(db) : Matches(db.tickets[i], filters)})

\* Ticket.find(query).sort({createdAt: -1}).skip(skip).limit(limit)
FindTickets(db, filters, tie) ==
  LET skip == (PageOf(filters) - 1) * LimitOf(filters)
      found == {i \in TicketIds(db) : Matches(db.tickets[i], filters)}
      sorted == SortDesc(db, found, tie)
      last == IF skip + LimitOf(filters) < Len(sorted)
                THEN skip + LimitOf(filters) ELSE Len(sorted)
  IN SubSeq(sorted, skip + 1, last)

\* What getTickets returns, from the count and the page read.
ListResult(filters, total, found) ==
  [tickets |-> found,
   total |-> total,
   page |-> PageOf(filters),
   pages |-> (total + LimitOf(filters) - 1) \div LimitOf(filters)]

\* Filters passed on without the customer override.
ListFiltersAsGiven(role, actor, query) == query

\* The filters the controller hands to the service: the query string, with
\* customer overwritten by the actor's id when req.user's role is customer.
ListFilters(role, actor, query) ==
  IF role = "customer" THEN With(query, "customer", actor) ELSE query

\* getTicketsValidation: page isInt({min: 1}), limit isInt({min: 1, max:
\* 50}), unless left out.
ValidListQuery(query) ==
  /\ Has(query, "page") => query.page >= 1
  /\ Has(query, "limit") => (query.limit >= 1 /\ query.limit <= 50)

\* TicketController.getTickets: the countDocuments, then the find.
GetTicketsStep(db, r, tie) ==
  CASE r.pc = "auth" ->
         LET q == Authenticated(db, r)
         IN IF ~ValidListQuery(q.body) THEN Done(400, "Invalid value", db, NoId)
            ELSE Await(db, q, "count", NoLocal)
    [] r.pc = "count" ->
         Await(db, r, "find",
               [total |-> CountTickets(db,
                            ListFilters(r.role, r.actor, r.body))])
    [] OTHER ->
         Done(200, "", db,
              ListResult(ListFilters(r.role, r.actor, r.body), r.local.total,
                         FindTickets(db, ListFilters(r.role, r.actor, r.body),
                                     tie)))

(***************************************************************************)
(* One step of a request, and a request handled from its arrival to its    *)
(* answer with no step of another request in between.                      *)
(***************************************************************************)
\* What the store is free to choose at an operation: the order of equal
\* sort keys of a find, and whether a value that is not an array is
\* refused for the path comments.
NoTie == <<>>
NoChoice == [order |-> NoTie, refuse |-> FALSE]

\* A request arrives and runs up to its first await: User.findById of
\* authenticate on the queue and ticket routes, the findOne of register, the
\* findByIdAndUpdate of updateUser.
Arrive(db, r) ==
  IF r.op = "register" THEN Await(db, r, "find", NoLocal)
  ELSE IF r.op = "updateUser"
    THEN Await(db, r, "write", [doc |-> WithoutRole(r.body.data)])
  ELSE Await(db, r, "auth", NoLocal)

StepOf(db, r, at, choice) ==
  IF r.pc = "arrive" THEN Arrive(db, r)
  ELSE IF r.pc = "auth" /\ r.actor \notin DOMAIN db.users
    THEN UserNotFound(db)
  ELSE CASE r.op = "createQueue" -> CreateQueueStep(db, r)
         [] r.op = "getQueue" -> GetQueueStep(db, r)
         [] r.op = "updateQueue" -> UpdateQueueStep(db, r)
         [] r.op = "deleteQueue" -> DeleteQueueStep(db, r)
         [] r.op = "createTicket" -> CreateTicketStep(db, r, at)
         [] r.op = "getTicket" -> GetTicketStep(db, r)
         [] r.op = "getTickets" -> GetTicketsStep(db, r, choice.order)
         [] r.op = "updateTicket" ->
              UpdateTicketStep(db, r, at, choice.refuse)
         [] r.op = "addComment" -> AddCommentStep(db, r, at)
         [] r.op = "assignTicket" -> AssignTicketStep(db, r)
         [] r.op = "moveToQueue" -> MoveTicketStep(db, r)
         [] r.op = "register" -> RegisterStep(db, r)
         [] r.op = "updateUser" -> UpdateUserStep(db, r)

RECURSIVE RunAlone(_, _, _, _)
RunAlone(db, r, at, choice) ==
  LET o == StepOf(db, r, at, choice)
  IN IF o.req.op = "none" THEN o ELSE RunAlone(o.db, o.req, at, choice)

QueueController_createQueue(db, actor, body) ==
  RunAlone(db, Request("createQueue", actor, NoId, body, ""), NoDate, NoChoice)

QueueController_getQueueById(db, actor, queueId) ==
  RunAlone(db, Request("getQueue", actor, queueId, NoLocal, ""), NoDate,
           NoChoice)

QueueController_updateQueue(db, actor, queueId, body) ==
  RunAlone(db, Request("updateQueue", actor, queueId, body, ""), NoDate,
           NoChoice)

QueueController_deleteQueue(db, actor, queueId) ==
  RunAlone(db, Request("deleteQueue", actor, queueId, NoLocal, ""), NoDate,
           NoChoice)

TicketController_createTicket(db, actor, body, at) ==
  RunAlone(db, Request("createTicket", actor, NoId, body, ""), at, NoChoice)

TicketController_getTicketById(db, actor, ticketId) ==
  RunAlone(db, Request("getTicket", actor, ticketId, NoLocal, ""), NoDate,
           NoChoice)

TicketController_getTickets(db, actor, query, tie) ==
  RunAlone(db, Request("getTickets", actor, NoId, query, ""), NoDate,
           [order |-> tie, refuse |-> FALSE])

TicketController_updateTicket(db, actor, ticketId, body, at) ==
  RunAlone(db, Request("updateTicket", actor, ticketId, body, ""), at,
           NoChoice)

TicketController_addComment(db, actor, ticketId, body, at) ==
  RunAlone(db, Request("addComment", actor, ticketId, body, ""), at, NoChoice)

TicketController_assignTicket(db, actor, ticketId, assigneeId) ==
  RunAlone(db, Request("assignTicket", actor, ticketId,
                       [assigneeId |-> assigneeId], ""), NoDate, NoChoice)

TicketController_moveTicketQueue(db, actor, ticketId, queueId) ==
  RunAlone(db, Request("moveToQueue", actor, ticketId,
                       [queueId |-> queueId], ""), NoDate, NoChoice)

(***************************************************************************)
(* The state machine.                                                      *)
(***************************************************************************)
\* The users registered before the requests modelled: an admin, an agent
\* and two customers.
Registered ==
  [u \in {"root", "ann", "alice", "bob"} |->
     [role |-> CASE u = "root" -> "admin"
                 [] u = "ann" -> "agent"
                 [] OTHER -> "customer"]]

Actors == DOMAIN Registered

\* The requests that can be in progress at once.
Requests == {1, 2}

\* The record of a step that sent no answer.
Quiet == [op |-> "none", role |-> "none", arg |-> "", code |-> 0, msg |-> ""]

Init ==
  /\ users = Registered
  /\ queues = <<>>
  /\ nextQid = 1
  /\ tickets = <<>>
  /\ now = 1
  /\ resp = Quiet
  /\ inflight = [s \in Requests |-> Idle]

\* The number of comments the first n tickets hold.
RECURSIVE CommentCount(_, _)
CommentCount(ts, n) ==
  IF n = 0 THEN 0 ELSE Len(ts[n].comments) + CommentCount(ts, n - 1)

\* What a request in progress may still add to the store: a queue, a
\* ticket, a comment.
NeedsQueue(r) ==
  \/ r.op = "createQueue"
  \/ r.op = "createTicket" /\ r.pc \in {"clear", "general"}

\* A ticket is on its way once the request holds the queue it goes to.
NeedsTicket(r) == r.op = "createTicket" /\ r.pc = "save"

NeedsComment(r) ==
  \/ r.op = "addComment"
  \/ /\ r.op = "updateTicket"
     /\ \/ Has(r.body, FirstCommentContent)
        \/ Has(r.body, FirstCommentInternal)

\* The store, with what the requests in progress may add to it, stays
\* within the bounds of the model.  A request that would take it beyond
\* them is not followed: it does not arrive, or, for a ticket whose queue
\* 'General' has just been made when the tickets are all spoken for, it
\* does not go on.
WithinBounds(db, reqs, maxTickets) ==
  /\ db.nextQid + Cardinality({s \in Requests : NeedsQueue(reqs[s])})
       <= MaxQueues + 1
  /\ Len(db.tickets) + Cardinality({s \in Requests : NeedsTicket(reqs[s])})
       <= maxTickets
  /\ CommentCount(db.tickets, Len(db.tickets))
       + Cardinality({s \in Requests : NeedsComment(reqs[s])}) <= MaxComments

\* req.user.role of a request that is answered: the role read by
\* authenticate, at this step or at an earlier one.
RoleSeen(db, r) == IF r.pc = "auth" THEN RoleIn(db, r.actor) ELSE r.role

\* Request r, in slot s, takes its next step: the store becomes the one the
\* step leaves, the request is suspended at its next await or leaves the
\* slot, and the answer, if one is sent, is recorded.
Take(s, r, maxTickets, choice) ==
  \E o \in {StepOf(DB, r, now, choice)} :
    \E reqs \in {[inflight EXCEPT ![s] = o.req]} :
      /\ WithinBounds(o.db, reqs, maxTickets)
      /\ users' = o.db.users
      /\ queues' = o.db.queues
      /\ nextQid' = o.db.nextQid
      /\ tickets' = o.db.tickets
      /\ inflight' = reqs
      /\ resp' = IF o.req.op = "none"
                   THEN [op |-> r.op, role |-> RoleSeen(DB, r), arg |-> r.arg,
                         code |-> o.code, msg |-> o.msg]
                 ELSE Quiet
      /\ UNCHANGED now

\* The slot a new request takes: the first with no request in it.
FreeSlot(s) ==
  /\ inflight[s].op = "none"
  /\ \A t \in Requests : t < s => inflight[t].op # "none"

\* A request arrives: it runs up to its first await, with no store
\* operation.  A request to the queue and ticket routes carries the token
\* of a registered user.
Begin(r, maxTickets) ==
  /\ r.actor = NoUser \/ r.actor \in DOMAIN users
  /\ \E s \in Requests : FreeSlot(s) /\ Take(s, r, maxTickets, NoChoice)

\* What the store may choose at the operation request r awaits.
StoreChoices(db, r) ==
  IF r.op = "getTickets" /\ r.pc = "find"
    THEN {[order |-> tie, refuse |-> FALSE] : tie \in TieInputs(db)}
  ELSE IF r.op = "updateTicket" /\ r.pc \in {"check", "read"}
            /\ Has(WithoutComments(r.body), "comments")
    THEN {[order |-> NoTie, refuse |-> b] : b \in BOOLEAN}
  ELSE {NoChoice}

\* A suspended request takes its next step: the store operation it awaits
\* and what follows it.
ResumeWithin(maxTickets) ==
  \E s \in Requests :
    /\ inflight[s].op # "none"
    /\ \E choice \in StoreChoices(DB, inflight[s]) :
         Take(s, inflight[s], maxTickets, choice)

QueueIdInputs == 1 .. MaxQueues
NameInputs == {"General", "Support"}
BoolInputs == {JsTrue, JsFalse, JsStrFalse, JsUndef}

\* The isDefault values sent while other requests are in progress.
DefaultsSent == {JsTrue, JsUndef}

\* Who sends the requests of Spec: the admin sends the queue requests, a
\* customer creates the tickets.
QueueActors == {"root"}
TicketCreators == {"alice"}

QueueBody(name, isDefault) == [name |-> name, isDefault |-> isDefault]

CreateQueueRequest(actor, name, isDefault) ==
  Request("createQueue", actor, NoId, QueueBody(name, isDefault), isDefault)

GetQueueRequest(actor, id) == Request("getQueue", actor, id, NoLocal, "")

UpdateQueueRequest(actor, id, name, isDefault) ==
  Request("updateQueue", actor, id, QueueBody(name, isDefault), isDefault)

DeleteQueueRequest(actor, id) == Request("deleteQueue", actor, id, NoLocal, "")

\* A ticket request body: title "" fails validation.
TicketBody(title, queue) ==
  [title |-> title, description |-> "d0", priority |-> JsUndef,
   queue |-> queue]

QueueArg(queue) == IF queue = NoId THEN "no queue" ELSE "queue"

CreateTicketRequest(actor, body) ==
  Request("createTicket", actor, NoId, body, QueueArg(body.queue))

CreateQueue ==
  \E actor \in QueueActors, name \in NameInputs, isDefault \in DefaultsSent :
    Begin(CreateQueueRequest(actor, name, isDefault), MaxTickets)

GetQueue ==
  \E actor \in QueueActors, id \in QueueIdInputs :
    Begin(GetQueueRequest(actor, id), MaxTickets)

UpdateQueue ==
  \E actor \in QueueActors, id \in QueueIdInputs :
    Begin(UpdateQueueRequest(actor, id, JsUndef, JsTrue), MaxTickets)

DeleteQueue ==
  \E actor \in QueueActors, id \in QueueIdInputs :
    Begin(DeleteQueueRequest(actor, id), MaxTickets)

CreateTicket ==
  \E actor \in TicketCreators, title \in {"t0", ""} :
    Begin(CreateTicketRequest(actor, TicketBody(title, NoId)), MaxTickets)

Resume == ResumeWithin(MaxTickets)

Next ==
  \/ CreateQueue
  \/ GetQueue
  \/ UpdateQueue
  \/ DeleteQueue
  \/ CreateTicket
  \/ Resume

Spec == Init /\ [][Next]_vars

(***************************************************************************)
(* SpecAlone: the requests of Spec handled one at a time, each from its    *)
(* first step to its answer before the next arrives, the queue requests    *)
(* with every isDefault value.                                             *)
(***************************************************************************)
\* No request is in progress.
Alone == \A s \in Requests : inflight[s].op = "none"

\* The isDefault values sent one request at a time: with the booleans, the
\* string 'false' and the field left out, the values 0, null, '' and [].
SoloBoolInputs == BoolInputs \cup {JsZero, JsNull, "", JsEmptyArray}

\* The queue names sent one request at a time: with the names, the field
\* left out and null.
SoloNameInputs == NameInputs \cup {JsUndef, JsNull}

SoloCreateQueue ==
  /\ Alone
  /\ \E actor \in QueueActors, name \in SoloNameInputs,
        isDefault \in SoloBoolInputs :
       Begin(CreateQueueRequest(actor, name, isDefault), MaxTickets)

SoloGetQueue == Alone /\ GetQueue

SoloUpdateQueue ==
  /\ Alone
  /\ \E actor \in QueueActors, id \in QueueIdInputs,
        isDefault \in SoloBoolInputs :
       Begin(UpdateQueueRequest(actor, id, JsUndef, isDefault), MaxTickets)

SoloDeleteQueue == Alone /\ DeleteQueue
\* The titles sent one request at a time: with a title and '', the field
\* left out, null, false and [].
SoloTitleInputs == {"t0", "", JsUndef, JsNull, JsFalse, JsEmptyArray}

\* The priorities sent one request at a time: the field left out, a
\* priority, one that is none of the enum, and [].
SoloPriorityInputs == {JsUndef, "high", "bogus", JsEmptyArray}

SoloCreateTicket ==
  /\ Alone
  /\ \E actor \in TicketCreators, title \in SoloTitleInputs,
        priority \in SoloPriorityInputs :
       Begin(CreateTicketRequest(actor,
               [TicketBody(title, NoId) EXCEPT !.priority = priority]),
             MaxTickets)
SoloResume == Resume

NextAlone ==
  \/ SoloCreateQueue
  \/ SoloGetQueue
  \/ SoloUpdateQueue
  \/ SoloDeleteQueue
  \/ SoloCreateTicket
  \/ SoloResume

SpecAlone == Init /\ [][NextAlone]_vars

(***************************************************************************)
(* SpecLifecycle: a customer creates tickets, an agent updates their       *)
(* status and assigns them, and time passes.                               *)
(***************************************************************************)
Tick ==
  /\ now < MaxClock
  /\ now' = now + 1
  /\ UNCHANGED <<users, queues, nextQid, tickets, resp, inflight>>

\* The update bodies sent in SpecLifecycle: every status, a status the
\* validation rejects, and statuses sent along with the timestamp fields.
StatusPatches ==
  {[status |-> s] : s \in Statuses \cup {"bogus"}}
    \cup {[status |-> "resolved", resolvedAt |-> NoDate],
          [status |-> "closed", closedAt |-> NoDate]}

LcTicketIdInputs == 1 .. MaxLifecycleTickets

GetTicketRequest(actor, id) == Request("getTicket", actor, id, NoLocal, "")

UpdateTicketRequest(actor, id, body, arg) ==
  Request("updateTicket", actor, id, body, arg)

AssignTicketRequest(actor, id, assigneeId) ==
  Request("assignTicket", actor, id, [assigneeId |-> assigneeId], "")

MoveTicketRequest(actor, id, queueId) ==
  Request("moveToQueue", actor, id, [queueId |-> queueId], "")

LcCreateTicket ==
  Begin(CreateTicketRequest("alice", TicketBody("t0", NoId)),
        MaxLifecycleTickets)

LcUpdateTicket ==
  \E id \in LcTicketIdInputs, body \in StatusPatches :
    Begin(UpdateTicketRequest("ann", id, body, ""), MaxLifecycleTickets)

\* The assignments sent: by the agent of an agent and with assigneeId left
\* out, by the customer of an agent.
AssignmentsSent == {<<"ann", "ann">>, <<"ann", JsUndef>>, <<"alice", "ann">>}

LcAssignTicket ==
  \E sent \in AssignmentsSent, id \in LcTicketIdInputs :
    Begin(AssignTicketRequest(sent[1], id, sent[2]), MaxLifecycleTickets)

LcResume == ResumeWithin(MaxLifecycleTickets)

NextLifecycle ==
  \/ LcCreateTicket
  \/ LcUpdateTicket
  \/ LcAssignTicket
  \/ LcResume
  \/ Tick

SpecLifecycle == Init /\ [][NextLifecycle]_vars

(***************************************************************************)
(* SpecPolicy: a customer creates tickets; customers and an agent update   *)
(* them, customers read them, the other customer comments on them.         *)
(***************************************************************************)
Customers == {"alice", "bob"}

\* The update bodies sent in SpecPolicy: the validation refuses the status
\* 'bogus' and lets the status [] through.
PolicyPatches ==
  {[title |-> "t1"],
   [title |-> "t1", description |-> "d1", status |-> "open"],
   [status |-> "bogus"],
   [status |-> JsEmptyArray],
   [customer |-> Ghost]}

\* What an update body carries, for the record of the request.
KeysArg(body) ==
  IF DOMAIN body \subseteq {"title", "description"} THEN "title/description"
  ELSE IF Has(body, "title") THEN "title and more"
  ELSE "other keys"

PoTicketIdInputs == 1 .. MaxPolicyTickets

CommentBody(content, isInternal) ==
  [content |-> content, isInternal |-> isInternal]

AddCommentRequest(actor, id, body) ==
  Request("addComment", actor, id, body, body.isInternal)

PoCreateTicket ==
  \E actor \in TicketCreators :
    Begin(CreateTicketRequest(actor, TicketBody("t0", NoId)), MaxPolicyTickets)

\* Who sends them: the ticket's customer every one, the other customer a
\* title alone and a title with a status, the agent another customer.
PatchesSent ==
  {<<"alice", body>> : body \in PolicyPatches}
    \cup {<<"bob", [title |-> "t1"]>>,
          <<"bob", [title |-> "t1", description |-> "d1", status |-> "open"]>>,
          <<"ann", [customer |-> Ghost]>>}

PoUpdateTicket ==
  \E id \in PoTicketIdInputs, sent \in PatchesSent :
    Begin(UpdateTicketRequest(sent[1], id, sent[2], KeysArg(sent[2])),
          MaxPolicyTickets)

PoGetTicket ==
  \E actor \in Customers, id \in PoTicketIdInputs :
    Begin(GetTicketRequest(actor, id), MaxPolicyTickets)

PoAddComment ==
  \E actor \in Customers \ TicketCreators, id \in PoTicketIdInputs :
    Begin(AddCommentRequest(actor, id, CommentBody("c", JsUndef)),
          MaxPolicyTickets)

PoResume == ResumeWithin(MaxPolicyTickets)

NextPolicy ==
  \/ PoCreateTicket
  \/ PoUpdateTicket
  \/ PoGetTicket
  \/ PoAddComment
  \/ PoResume

SpecPolicy == Init /\ [][NextPolicy]_vars

(***************************************************************************)
(* SpecComments: a customer creates tickets; the customer, an agent and an *)
(* admin comment on them, and time passes.                                 *)
(***************************************************************************)
CoTicketIdInputs == 1 .. MaxCommentTickets

\* The comments sent: by the customer a plain one, an internal one and one
\* without content; by the agent an internal one; by the admin one whose
\* isInternal is not a boolean.
CommentActors == {"alice", "ann", "root"}

CommentsSent ==
  {<<"alice", CommentBody("c", JsUndef)>>,
   <<"alice", CommentBody("c", JsTrue)>>,
   <<"alice", CommentBody("", JsUndef)>>,
   <<"ann", CommentBody("c", JsTrue)>>,
   <<"root", CommentBody("c", JsYes)>>}

CoCreateTicket ==
  Begin(CreateTicketRequest("alice", TicketBody("t0", NoId)),
        MaxCommentTickets)

CoAddComment ==
  \E id \in CoTicketIdInputs, sent \in CommentsSent :
    Begin(AddCommentRequest(sent[1], id, sent[2]), MaxCommentTickets)

CoResume == ResumeWithin(MaxCommentTickets)

NextComments ==
  \/ CoCreateTicket
  \/ CoAddComment
  \/ CoResume
  \/ Tick

SpecComments == Init /\ [][NextComments]_vars

(***************************************************************************)
(* SpecList: customers create tickets, a customer and an agent list them,  *)
(* and time passes.                                                        *)
(***************************************************************************)
\* The filters a query string can carry.
ListFilterInputs ==
  [status : {JsUndef, "new"},
   priority : {JsUndef, "high"},
   customer : {JsUndef, "alice", "bob"}]

NoFilter == [status |-> JsUndef, priority |-> JsUndef, customer |-> JsUndef]

\* The list requests sent.  By a customer: another customer's id, a limit
\* the validation rejects, an empty status.  By an agent: a customer's id,
\* a page and a limit, a status with a priority and a queue, an assignee.
ListsSent ==
  {<<"alice", [NoFilter EXCEPT !.customer = "bob"]>>,
   <<"alice", With(NoFilter, "limit", 51)>>,
   <<"alice", [NoFilter EXCEPT !.status = ""]>>,
   <<"ann", [NoFilter EXCEPT !.customer = "bob"]>>,
   <<"ann", With(With(NoFilter, "page", 2), "limit", 1)>>,
   <<"ann", With([NoFilter EXCEPT !.status = "new", !.priority = "high"],
                 "queue", 1)>>,
   <<"ann", With(NoFilter, "assignee", "ann")>>}

\* Whose tickets the query's customer parameter asks for.
FilterArg(actor, query) ==
  IF query.customer = JsUndef THEN "no customer"
  ELSE IF query.customer = actor THEN "own" ELSE "another user"

GetTicketsRequest(actor, query) ==
  Request("getTickets", actor, NoId, query, FilterArg(actor, query))

\* alice's tickets are of high priority, bob's of the default priority.
LiCreateTicket ==
  \E actor \in Customers :
    Begin(CreateTicketRequest(actor,
            [TicketBody("t0", NoId) EXCEPT
               !.priority = IF actor = "alice" THEN "high" ELSE JsUndef]),
          MaxListTickets)

LiGetTickets ==
  \E sent \in ListsSent :
    Begin(GetTicketsRequest(sent[1], sent[2]), MaxListTickets)

LiResume == ResumeWithin(MaxListTickets)

NextList ==
  \/ LiCreateTicket
  \/ LiGetTickets
  \/ LiResume
  \/ Tick

SpecList == Init /\ [][NextList]_vars

(***************************************************************************)
(* SpecEdits: a customer creates tickets and comments on them; an agent    *)
(* reads, updates, comments on, assigns and moves tickets, by ids that     *)
(* exist and by ids that do not.                                           *)
(***************************************************************************)
\* An id of no ticket, in every state: one more than the tickets created.
NoTicketId == MaxEditTickets + 1

\* The update bodies sent in SpecEdits: a comments array, a comments key
\* with null, a status and a priority that are arrays, a dotted path into
\* the comments, and a customer.
EditPatches ==
  {[comments |-> JsEmptyArray],
   [comments |-> JsNull],
   [status |-> JsEmptyArray],
   [priority |-> JsEmptyArray],
   [k \in {FirstCommentContent} |-> "edited"],
   [customer |-> "bob"]}

\* What an update body is aimed at, for the record of the request.
EditArg(body) ==
  IF Has(body, "comments") THEN "comments"
  ELSE IF Has(body, FirstCommentContent) THEN "comments.0.content"
  ELSE IF Has(body, "customer") THEN "customer"
  ELSE "status/priority"

\* The updates sent: every body on the first ticket, one on no ticket.
EditsSent ==
  {<<1, body>> : body \in EditPatches} \cup {<<NoTicketId, [customer |-> "bob"]>>}

\* The comments sent: by the customer on the first ticket, by the agent on
\* no ticket and, with content null, left out or [], on the first ticket.
EditCommentsSent ==
  {<<"alice", 1, "c">>, <<"ann", NoTicketId, "c">>, <<"ann", 1, JsNull>>,
   <<"ann", 1, JsUndef>>, <<"ann", 1, JsEmptyArray>>}

\* The moves sent: of the first ticket to the first queue and to a queue
\* that is never made, and of no ticket.
MovesSent == {<<1, 1>>, <<1, MaxQueues>>, <<NoTicketId, 1>>}

EdCreateTicket ==
  Begin(CreateTicketRequest("alice", TicketBody("t0", NoId)), MaxEditTickets)

EdGetTicket ==
  \E id \in {1, NoTicketId} :
    Begin(GetTicketRequest("ann", id), MaxEditTickets)

EdUpdateTicket ==
  \E sent \in EditsSent :
    Begin(UpdateTicketRequest("ann", sent[1], sent[2], EditArg(sent[2])),
          MaxEditTickets)

EdAddComment ==
  \E sent \in EditCommentsSent :
    Begin(AddCommentRequest(sent[1], sent[2], CommentBody(sent[3], JsUndef)),
          MaxEditTickets)

EdAssignTicket ==
  \E id \in {1, NoTicketId} :
    Begin(AssignTicketRequest("ann", id, "ann"), MaxEditTickets)

EdMoveTicket ==
  \E sent \in MovesSent :
    Begin(MoveTicketRequest("ann", sent[1], sent[2]), MaxEditTickets)

EdResume == ResumeWithin(MaxEditTickets)

NextEdits ==
  \/ EdCreateTicket
  \/ EdGetTicket
  \/ EdUpdateTicket
  \/ EdAddComment
  \/ EdAssignTicket
  \/ EdMoveTicket
  \/ EdResume

SpecEdits == Init /\ [][NextEdits]_vars

(***************************************************************************)
(* SpecGates: a customer creates tickets; the admin and an agent send the  *)
(* queue requests, an agent and a customer the assignments and moves.      *)
(***************************************************************************)
\* The targets and bodies the gates are claimed for.
GaTicketIdInputs == 1 .. MaxGateTickets + 1
GaNameInputs == NameInputs \cup {""}
GaAssigneeInputs == {"ann", ""}
GaQueueIdInputs == {NoId} \cup QueueIdInputs

GaCreateTicket ==
  Begin(CreateTicketRequest("alice", TicketBody("t0", NoId)), MaxGateTickets)

GaCreateQueue ==
  \/ \E isDefault \in DefaultsSent :
       Begin([CreateQueueRequest("root", "Support", isDefault)
                EXCEPT !.arg = ""],
             MaxGateTickets)
  \/ Begin([CreateQueueRequest("ann", "Support", JsTrue) EXCEPT !.arg = ""],
           MaxGateTickets)

GaUpdateQueue ==
  \/ Begin([UpdateQueueRequest("root", 1, JsUndef, JsTrue)
               EXCEPT !.arg = ""], MaxGateTickets)
  \/ Begin([UpdateQueueRequest("ann", 1, JsUndef, JsTrue)
               EXCEPT !.arg = ""], MaxGateTickets)

GaDeleteQueue ==
  \/ Begin(DeleteQueueRequest("root", 1), MaxGateTickets)
  \/ Begin(DeleteQueueRequest("ann", 1), MaxGateTickets)

GaAssignTicket ==
  \E actor \in {"ann", "alice"} :
    Begin(AssignTicketRequest(actor, 1, "ann"), MaxGateTickets)

GaMoveTicket ==
  \/ Begin(MoveTicketRequest("ann", 1, 1), MaxGateTickets)
  \/ Begin(MoveTicketRequest("alice", 1, 1), MaxGateTickets)

GaResume == ResumeWithin(MaxGateTickets)

NextGates ==
  \/ GaCreateTicket
  \/ GaCreateQueue
  \/ GaUpdateQueue
  \/ GaDeleteQueue
  \/ GaAssignTicket
  \/ GaMoveTicket
  \/ GaResume

SpecGates == Init /\ [][NextGates]_vars

(***************************************************************************)
(* SpecRace: the admin's createQueue and updateQueue requests alone.       *)
(***************************************************************************)
RaceBoolInputs == {JsTrue, JsFalse, JsUndef}

RcCreateQueue ==
  \E name \in NameInputs, isDefault \in RaceBoolInputs :
    Begin(CreateQueueRequest("root", name, isDefault), MaxTickets)

RcUpdateQueue ==
  \E id \in QueueIdInputs, isDefault \in RaceBoolInputs,
     name \in {JsUndef, "Support"} :
    Begin(UpdateQueueRequest("root", id, name, isDefault), MaxTickets)

RcResume == ResumeWithin(MaxTickets)

NextRace ==
  \/ RcCreateQueue
  \/ RcUpdateQueue
  \/ RcResume

SpecRace == Init /\ [][NextRace]_vars

(***************************************************************************)
(* SpecRemoval: SpecRace with the admin's deleteQueue requests.            *)
(***************************************************************************)
RcDeleteQueue ==
  \E id \in QueueIdInputs : Begin(DeleteQueueRequest("root", id), MaxTickets)

NextRemoval ==
  \/ RcCreateQueue
  \/ RcUpdateQueue
  \/ RcDeleteQueue
  \/ RcResume

SpecRemoval == Init /\ [][NextRemoval]_vars

(***************************************************************************)
(* SpecAuthors: a user registers, users are updated, a customer creates a  *)
(* ticket and comments on it, an agent comments on it and updates it.      *)
(***************************************************************************)
RegisterRequest(email, role) ==
  Request("register", NoUser, NoId, [email |-> email, role |-> role], role)

UpdateUserRequest(userId, data, arg) ==
  Request("updateUser", NoUser, NoId, [userId |-> userId, data |-> data], arg)

\* The registrations sent: a new user without a role, with the role '' and
\* with a role that is none of the enum, and a user who is registered
\* already.
RegistrationsSent ==
  {<<"carol", JsUndef>>, <<"carol", "">>, <<"carol", "bogus">>,
   <<"alice", JsUndef>>}

AuRegister ==
  \E sent \in RegistrationsSent :
    Begin(RegisterRequest(sent[1], sent[2]), MaxAuthorTickets)

\* The updates of a user: a role (truthy) and the role '' (falsy), of a
\* customer and of a user who may not be there.
AuUpdateUser ==
  \E userId \in {"alice", "carol"}, role \in {"admin", ""} :
    Begin(UpdateUserRequest(userId, [role |-> role], role), MaxAuthorTickets)

AuCreateTicket ==
  Begin(CreateTicketRequest("alice", TicketBody("t0", NoId)),
        MaxAuthorTickets)

\* The comments sent: by the customer a plain and an internal one, by the
\* agent an internal one and ones whose isInternal is 0 and [].
AuthorCommentsSent ==
  {<<"alice", JsUndef>>, <<"alice", JsTrue>>, <<"ann", JsTrue>>,
   <<"ann", JsZero>>, <<"ann", JsEmptyArray>>}

AuAddComment ==
  \E sent \in AuthorCommentsSent :
    Begin(AddCommentRequest(sent[1], 1, CommentBody("c", sent[2])),
          MaxAuthorTickets)

\* The updates of a ticket: by the agent the flag of the first comment
\* (true, false and ''), by the customer the title.
AuthorPatchesSent ==
  {<<"ann", [k \in {FirstCommentInternal} |-> JsTrue]>>,
   <<"ann", [k \in {FirstCommentInternal} |-> JsFalse]>>,
   <<"ann", [k \in {FirstCommentInternal} |-> ""]>>,
   <<"alice", [title |-> "t1"]>>}

AuUpdateTicket ==
  \E sent \in AuthorPatchesSent :
    Begin(UpdateTicketRequest(sent[1], 1, sent[2], KeysArg(sent[2])),
          MaxAuthorTickets)

AuResume == ResumeWithin(MaxAuthorTickets)

NextAuthors ==
  \/ AuRegister
  \/ AuUpdateUser
  \/ AuCreateTicket
  \/ AuAddComment
  \/ AuUpdateTicket
  \/ AuResume

SpecAuthors == Init /\ [][NextAuthors]_vars

(***************************************************************************)
(* Claims about the queue directory, checked under SpecAlone and Spec.     *)
(***************************************************************************)
\* C1: with requests handled one at a time, at most one queue is the
\* default, in every reachable state.  Checked under SpecAlone.
C1_AtMostOneDefault == Cardinality(Defaults(queues)) <= 1

\* C1's case: an update has just moved the default from one queue to
\* another.
C1_Witness ==
  /\ resp.op = "updateQueue" /\ resp.code = 200
  /\ Cardinality(DOMAIN queues) = 2
  /\ \E q \in DOMAIN queues : queues[q].isDefault /\ queues[q].name = "Support"
  /\ \E q \in DOMAIN queues : ~queues[q].isDefault /\ queues[q].name = "General"
  /\ Len(tickets) > 0

\* The outcome of a well-formed createTicket request that names no queue,
\* handled with no other request in between.
CreateWithoutQueue(actor) ==
  TicketController_createTicket(DB, actor, TicketBody("t0", NoId), now)

\* C2: whenever no queue is the default, a createTicket that names no queue
\* creates exactly one queue, named "General" and default, and the new
\* ticket refers to it.
C2_GeneralSynthesized ==
  \A actor \in TicketCreators :
    Defaults(queues) = {} =>
      LET out == CreateWithoutQueue(actor)
      IN /\ out.code = 201
         /\ Len(out.db.tickets) = Len(tickets) + 1
         /\ \E g \in DOMAIN out.db.queues :
              /\ DOMAIN out.db.queues = DOMAIN queues \cup {g}
              /\ g \notin DOMAIN queues
              /\ out.db.queues[g] = [name |-> "General", isDefault |-> TRUE]
              /\ out.db.tickets[Len(out.db.tickets)].queue = g

\* A createTicket request that names no queue.
NoQueueCreate(r) == r.op = "createTicket" /\ r.body.queue = NoId

\* C3: when a queue is the default, a createTicket that names no queue puts
\* the new ticket in that queue and changes no queue: the request's read
\* (getDefaultQueue) finds a queue that is the default then, its save stores
\* the ticket in the queue found, and none of its steps changes a queue.
C3_DefaultQueueUsed ==
  [][\A s \in Requests :
       /\ (/\ NoQueueCreate(inflight[s])
           /\ inflight[s].pc \in {"arrive", "auth"}
           /\ inflight'[s] # inflight[s])
            => /\ inflight'[s].pc \in {"auth", "default", "idle"}
               /\ queues' = queues
               /\ tickets' = tickets
       /\ (/\ NoQueueCreate(inflight[s])
           /\ inflight[s].pc = "default"
           /\ inflight'[s] # inflight[s]
           /\ Defaults(queues) # {})
            => /\ inflight'[s].pc = "save"
               /\ inflight'[s].local.queue \in Defaults(queues)
               /\ queues' = queues
               /\ tickets' = tickets
       /\ (/\ NoQueueCreate(inflight[s])
           /\ inflight[s].pc = "save"
           /\ inflight'[s] # inflight[s])
            => /\ inflight'[s].pc = "read"
               /\ Len(tickets') = Len(tickets) + 1
               /\ SubSeq(tickets', 1, Len(tickets)) = tickets
               /\ tickets'[Len(tickets')].queue = inflight[s].local.queue
               /\ queues' = queues
       /\ (/\ NoQueueCreate(inflight[s])
           /\ inflight[s].pc = "read"
           /\ inflight'[s] # inflight[s])
            => /\ resp'.code = 201
               /\ queues' = queues
               /\ tickets' = tickets]_vars

\* C3's case: a ticket was created without a queue while the default was a
\* queue an admin had made ("Support"), beside a non-default "General".
C3_Witness ==
  /\ resp.op = "createTicket" /\ resp.arg = "no queue" /\ resp.code = 201
  /\ \E q \in Defaults(queues) :
       /\ queues[q].name = "Support"
       /\ tickets[Len(tickets)].queue = q
  /\ \E q \in DOMAIN queues : queues[q].name = "General"

\* The queue ids the store has handed out and no longer holds.
Deleted(qs, next) == {id \in 1 .. next - 1 : id \notin DOMAIN qs}

\* C4: deleteQueue of the default queue fails with "Cannot delete the
\* default queue" and changes no queue; deleteQueue of another queue goes on
\* to its removal, which is answered 200 and removes that queue alone; and
\* from then on getQueue of its id fails with "Queue not found".
C4_DeleteQueue ==
  [][/\ \A s \in Requests :
          (/\ inflight[s].op = "deleteQueue"
           /\ inflight[s].pc = "check"
           /\ inflight'[s] # inflight[s]
           /\ inflight[s].id \in DOMAIN queues)
          => /\ queues' = queues
             /\ IF queues[inflight[s].id].isDefault
                  THEN /\ inflight'[s] = Idle
                       /\ resp'.code = 500
                       /\ resp'.msg = "Cannot delete the default queue"
                  ELSE inflight'[s].pc = "remove"
     /\ \A s \in Requests :
          (/\ inflight[s].op = "deleteQueue"
           /\ inflight[s].pc = "remove"
           /\ inflight'[s] # inflight[s])
          => /\ resp'.code = 200
             /\ inflight[s].id \notin DOMAIN queues'
             /\ \A q \in DOMAIN queues \ {inflight[s].id} :
                  q \in DOMAIN queues' /\ queues'[q] = queues[q]
     /\ \A id \in Deleted(queues, nextQid) :
          /\ id \in Deleted(queues', nextQid')
          /\ QueueController_getQueueById(DB, "alice", id).code = 404
          /\ QueueController_getQueueById(DB, "alice", id).msg
               = "Queue not found"]_vars

\* C4's case: a non-default queue has just been deleted while another queue
\* is the default.
C4_Witness ==
  /\ resp.op = "deleteQueue" /\ resp.code = 200
  /\ Deleted(queues, nextQid) # {}
  /\ Defaults(queues) # {}

(***************************************************************************)
(* Claims about the ticket lifecycle, checked under SpecLifecycle.         *)
(***************************************************************************)
\* C5: an update to status "resolved" sets resolvedAt when the ticket was
\* not resolved and leaves resolvedAt as it was when the ticket was already
\* resolved, so that leaving and re-entering "resolved" sets it again; the
\* same for "closed" and closedAt.  The update is handled with no other
\* request in between.
C5_StatusTimestamps ==
  \A id \in DOMAIN tickets, body \in StatusPatches :
    ValidUpdate(body) =>
      LET out == TicketController_updateTicket(DB, "ann", id, body, now)
      IN /\ out.code = 200
         /\ (body.status = "resolved" /\ tickets[id].status # "resolved")
              => (out.db.tickets[id].resolvedAt = now /\ now # NoDate)
         /\ (body.status = "resolved" /\ tickets[id].status = "resolved")
              => out.db.tickets[id].resolvedAt = tickets[id].resolvedAt
         /\ (body.status = "closed" /\ tickets[id].status # "closed")
              => (out.db.tickets[id].closedAt = now /\ now # NoDate)
         /\ (body.status = "closed" /\ tickets[id].status = "closed")
              => out.db.tickets[id].closedAt = tickets[id].closedAt

\* C6: assignTicket sets the assignee, moves a "new" ticket to "open" and
\* leaves every other status as it is.
C6_AssignTicket ==
  \A id \in DOMAIN tickets :
    LET out == TicketController_assignTicket(DB, "ann", id, "ann")
    IN /\ out.code = 200
       /\ out.db.tickets[id].assignee = "ann"
       /\ out.db.tickets[id].status =
            IF tickets[id].status = "new" THEN "open" ELSE tickets[id].status

(***************************************************************************)
(* Claims about the authorization policy, checked under SpecPolicy,        *)
(* SpecList and SpecComments.                                              *)
(***************************************************************************)
\* A request to update a ticket, sent by a customer, whose body carries a
\* key other than title and description.
CustomerPatch(r) ==
  /\ r.op = "updateTicket"
  /\ Role(r.actor) = "customer"
  /\ \E k \in DOMAIN r.body : k \notin {"title", "description"}

\* Request s takes a step.
Steps(s) == inflight'[s] # inflight[s]

\* Request s takes the step at which it is answered.
Answered(s) == Steps(s) /\ inflight'[s].op = "none"

C8_Ownership ==
  \A actor \in Customers, id \in DOMAIN tickets :
    LET mine == tickets[id].customer = actor
        got == TicketController_getTicketById(DB, actor, id)
        said == TicketController_addComment(DB, actor, id,
                                            CommentBody("c", JsUndef), now)
    IN /\ IF mine THEN got.code = 200 /\ got.body = id
          ELSE got.code = 403 /\ got.body = NoId
       /\ \A body \in PolicyPatches :
            (~mine /\ ValidUpdate(body))
            => LET out == TicketController_updateTicket(DB, actor, id, body,
                                                        now)
               IN out.code = 403 /\ out.db.tickets = tickets
       /\ ~mine => (said.code = 403 /\ said.db.tickets = tickets)

\* C9: a list requested by a customer holds only tickets whose customer is
\* the requester, whatever the query asks for; for an agent or an admin the
\* list is the one the query as sent selects.  The list is the one read by
\* the request's find, under every order the store may choose.
C9_CustomerListsOwn ==
  [][\A s \in Requests :
       (/\ inflight[s].op = "getTickets"
        /\ inflight[s].pc = "find"
        /\ inflight'[s] # inflight[s]) =>
         \A tie \in TieInputs(DB) :
           LET r == inflight[s]
               out == GetTicketsStep(DB, r, tie)
           IN /\ resp'.code = 200
              /\ out.code = 200
              /\ r.role = "customer"
                   => \A i \in 1 .. Len(out.body.tickets) :
                        tickets[out.body.tickets[i]].customer = r.actor
              /\ r.role # "customer"
                   => out.body.tickets = FindTickets(DB, r.body, tie)]_vars

\* C9's case: a customer has just listed with a customer parameter naming
\* another user, while both customers have a ticket.
C9_Witness ==
  /\ resp.op = "getTickets" /\ resp.role = "customer"
  /\ resp.arg = "another user" /\ resp.code = 200
  /\ \E i, j \in DOMAIN tickets :
       tickets[i].customer = "alice" /\ tickets[j].customer = "bob"

\* A request to add a comment whose isInternal is true.
InternalComment(r) == r.op = "addComment" /\ r.body.isInternal = JsTrue

\* C10: an internal comment sent by a customer is answered 403 and changes
\* no ticket; sent by an agent or an admin (on an existing ticket) the
\* request goes on to the read of the ticket, builds its comment and goes on
\* to the push, which is answered 200 and leaves the ticket's comments as
\* they were then followed by the new one, internal, by the sender, with
\* the createdAt the request gave it.
C10_InternalComment ==
  [][\A s \in Requests :
       /\ (/\ InternalComment(inflight[s])
           /\ inflight[s].pc = "auth"
           /\ inflight'[s] # inflight[s])
            => /\ tickets' = tickets
               /\ IF Role(inflight[s].actor) = "customer"
                    THEN inflight'[s] = Idle /\ resp'.code = 403
                    ELSE inflight'[s].pc = "check"
       /\ (/\ InternalComment(inflight[s])
           /\ inflight[s].pc = "check"
           /\ inflight'[s] # inflight[s]
           /\ inflight[s].id \in DOMAIN tickets)
            => /\ tickets' = tickets
               /\ inflight[s].role # "customer"
               /\ inflight'[s].pc = "push"
               /\ inflight'[s].local.at = now
       /\ (/\ InternalComment(inflight[s])
           /\ inflight[s].pc = "push"
           /\ inflight'[s] # inflight[s])
            => /\ inflight[s].role # "customer"
               /\ resp'.code = 200
               /\ tickets' =
                    [tickets EXCEPT ![inflight[s].id].comments =
                       Append(@, [content |-> inflight[s].body.content,
                                  author |-> inflight[s].actor,
                                  isInternal |-> TRUE,
                                  createdAt |-> inflight[s].local.at])]]_vars

\* C10's case: the agent has just added an internal comment after an
\* earlier comment of the customer, at a later instant.
C10_Witness ==
  /\ resp.op = "addComment" /\ resp.arg = JsTrue /\ resp.code = 200
  /\ resp.role = "agent"
  /\ \E id \in DOMAIN tickets :
       LET cs == tickets[id].comments
       IN /\ Len(cs) = 2
          /\ cs[2].isInternal /\ cs[2].author = "ann"
          /\ cs[1].author = "alice" /\ cs[2].createdAt > cs[1].createdAt

(***************************************************************************)
(* Claims about what a customer is sent, checked under SpecComments.       *)
(***************************************************************************)
\* res.json(ticket): the ticket a handler sends is the stored document,
\* whole, with every comment it holds.
SentTicket(out) == out.db.tickets[out.body]

\* C11: no ticket sent to a customer holds an internal comment: whenever a
\* customer's read of a ticket is answered with the ticket, none of the
\* comments sent is internal.
C11_InternalHidden ==
  \A actor \in Customers, id \in DOMAIN tickets :
    LET out == TicketController_getTicketById(DB, actor, id)
    IN out.code = 200
         => \A i \in DOMAIN SentTicket(out).comments :
              ~SentTicket(out).comments[i].isInternal

(***************************************************************************)
(* Claims about the operations on one ticket, checked under SpecEdits.     *)
(***************************************************************************)
\* C12: a ticket's comments are append-only: over every step the comments a
\* ticket held are a prefix of the comments it holds, and an addComment
\* answered 200 makes the comments stored exactly one more.
C12_AppendOnly ==
  [][/\ \A id \in DOMAIN tickets :
          /\ Len(tickets[id].comments) <= Len(tickets'[id].comments)
          /\ SubSeq(tickets'[id].comments, 1, Len(tickets[id].comments))
               = tickets[id].comments
     /\ (resp'.op = "addComment" /\ resp'.code = 200)
          => CommentCount(tickets', Len(tickets'))
               = CommentCount(tickets, Len(tickets)) + 1]_vars

\* C16: a ticket's customer is the user who created it and no later step
\* changes it, an update by an agent whose body carries a customer
\* included.  Checked under SpecEdits.
C16_CustomerFixed ==
  [][/\ \A id \in DOMAIN tickets : tickets'[id].customer = tickets[id].customer
     /\ Len(tickets') > Len(tickets)
          => tickets'[Len(tickets')].customer = "alice"]_vars

\* The requests aimed at one ticket.
TicketOps ==
  {"getTicket", "updateTicket", "addComment", "assignTicket", "moveToQueue"}

\* An assignment that passes the role gate and the validation: it is
\* answered at the step of authenticate's read.
PassedAssign(r) ==
  /\ r.op = "assignTicket"
  /\ r.pc = "auth"
  /\ Role(r.actor) \in {"admin", "agent"}
  /\ ~IsEmptyInput(r.body.assigneeId)

\* C17: a read, update, comment, assignment or move aimed at an id of no
\* ticket is answered 404 and changes nothing, and so is a move of a ticket
\* to an id of no queue, which leaves the ticket's queue as it was.  The
\* requests looked at are those that passed the role gate and the
\* validation.  Checked under SpecEdits.
C17_NotFound ==
  [][\A s \in Requests :
       /\ (/\ inflight[s].op \in TicketOps
           /\ \/ inflight[s].pc \notin {"arrive", "auth"}
              \/ PassedAssign(inflight[s])
           /\ inflight'[s].op = "none"
           /\ inflight[s].id \notin DOMAIN tickets)
            => /\ resp'.code = 404
               /\ tickets' = tickets /\ queues' = queues
       /\ (/\ inflight[s].op = "moveToQueue"
           /\ inflight[s].pc = "queue"
           /\ inflight'[s].op = "none"
           /\ inflight[s].body.queueId \notin DOMAIN queues)
            => /\ resp'.code = 404
               /\ tickets' = tickets /\ queues' = queues]_vars

(***************************************************************************)
(* Claims about the role gates, checked under SpecGates.                   *)
(***************************************************************************)
\* A handler's outcome is a refusal that left the store as it is.
Refused(out) == out.code = 403 /\ out.db = DB

\* C13: in every state, assignTicket and moveToQueue sent by a user who is
\* neither admin nor agent, and createQueue, updateQueue and deleteQueue
\* sent by a user who is not admin, are answered 403 and change no ticket
\* and no queue, for every target and every body.
C13_RoleGates ==
  /\ \A actor \in Actors :
       Role(actor) \notin {"admin", "agent"} =>
         \A id \in GaTicketIdInputs :
           /\ \A assigneeId \in GaAssigneeInputs :
                Refused(TicketController_assignTicket(DB, actor, id,
                                                      assigneeId))
           /\ \A queueId \in GaQueueIdInputs :
                Refused(TicketController_moveTicketQueue(DB, actor, id,
                                                         queueId))
  /\ \A actor \in Actors :
       Role(actor) # "admin" =>
         /\ \A name \in GaNameInputs, isDefault \in BoolInputs :
              Refused(QueueController_createQueue(DB, actor,
                        [name |-> name, isDefault |-> isDefault]))
         /\ \A id \in QueueIdInputs :
              /\ \A isDefault \in BoolInputs :
                   Refused(QueueController_updateQueue(DB, actor, id,
                             [name |-> JsUndef, isDefault |-> isDefault]))
              /\ Refused(QueueController_deleteQueue(DB, actor, id))

\* C13's case: an agent's deleteQueue has just been refused while a queue
\* that is not the default, and a ticket, exist.
C13_Witness ==
  /\ resp.op = "deleteQueue" /\ resp.role = "agent" /\ resp.code = 403
  /\ \E q \in DOMAIN queues : ~queues[q].isDefault
  /\ Len(tickets) > 0

(***************************************************************************)
(* Claims about the list, checked under SpecList.                          *)
(***************************************************************************)
\* C14: for every status and priority filter and every page size there is
\* one list, the tickets matching both filters newest first, of which every
\* request for page p is answered with the items at positions
\* (p-1)*n+1 .. p*n, with total the number of matching tickets and
\* pages = ceil(total / n); a page after the last is empty.
C14_FilterAndPages ==
  \A filters \in ListFilterInputs :
    \A query \in {filters, With(filters, "limit", 1)} :
     filters.customer = JsUndef =>
      LET n == LimitOf(query)
          matching ==
            {i \in DOMAIN tickets :
               /\ query.status # JsUndef => tickets[i].status = query.status
               /\ query.priority # JsUndef
                    => tickets[i].priority = query.priority}
          total == Cardinality(matching)
          pages == IF total % n = 0 THEN total \div n ELSE total \div n + 1
          newestFirst ==
            {L \in [1 .. total -> matching] :
               /\ \A a, b \in 1 .. total : L[a] = L[b] => a = b
               /\ \A a, b \in 1 .. total :
                    a < b => tickets[L[a]].createdAt >= tickets[L[b]].createdAt}
      IN \E L \in newestFirst :
           \A p \in 1 .. pages + 1, tie \in TieOrders(DB) :
             LET out == TicketController_getTickets(
                          DB, "ann", With(query, "page", p), tie)
                 last == IF p * n < total THEN p * n ELSE total
             IN /\ out.body.tickets = SubSeq(L, (p - 1) * n + 1, last)
                /\ out.body.total = total
                /\ out.body.pages = pages

(***************************************************************************)
(* Claims about failing and racing queue requests.                         *)
(***************************************************************************)
\* A handler's outcome is a success, or left every queue and ticket as it
\* is.
AllOrNothing(out) ==
  out.code >= 400 => (out.db.queues = queues /\ out.db.tickets = tickets)

\* C15: a request that is answered with an error leaves the store as it
\* was when the request arrived; in particular a createQueue with isDefault
\* true refused for its name, and an updateQueue with isDefault true of an
\* id of no queue, leave every queue's isDefault flag as it was.  Each
\* request is handled with no other request in between.  Checked under
\* Spec.
C15_AllOrNothing ==
  /\ \A name \in NameInputs, isDefault \in BoolInputs :
       AllOrNothing(QueueController_createQueue(DB, "root",
                                                QueueBody(name, isDefault)))
  /\ \A id \in QueueIdInputs, isDefault \in BoolInputs :
       AllOrNothing(QueueController_updateQueue(DB, "root", id,
                                                QueueBody(JsUndef, isDefault)))
  /\ \A id \in QueueIdInputs :
       AllOrNothing(QueueController_deleteQueue(DB, "root", id))
  /\ \A actor \in TicketCreators :
       AllOrNothing(CreateWithoutQueue(actor))

\* Request s is in progress.
Suspended(s) == inflight[s].op # "none"

\* A createQueue or updateQueue whose isDefault is truthy.
DefaultSetting(r) ==
  r.op \in {"createQueue", "updateQueue"} /\ Truthy(r.body.isDefault)

\* Request s takes its clearing step (the updateMany).
ClearStep(s) == inflight[s].pc = "clear" /\ inflight'[s] # inflight[s]

\* A default-setting request s takes its last step, which writes its queue,
\* and is answered with success.
SetStep(s) ==
  /\ DefaultSetting(inflight[s])
  /\ inflight[s].pc \in {"save", "write"}
  /\ inflight'[s].op = "none"
  /\ resp'.code < 400

\* The queue that request s writes.
Target(s) ==
  IF inflight[s].op = "createQueue" THEN nextQid ELSE inflight[s].id

\* A step that writes the isDefault flag of a queue that is default, or
\* removes it: the clearing step of a default-setting request, the write
\* of an updateQueue whose isDefault is false, aimed at a default queue,
\* or the removal a deleteQueue goes on to after its check.
UnsetsDefault ==
  \/ \E s \in Requests : ClearStep(s) /\ DefaultSetting(inflight[s])
  \/ \E s \in Requests :
       /\ inflight[s].op = "updateQueue"
       /\ inflight[s].body.isDefault = JsFalse
       /\ inflight[s].pc = "write"
       /\ inflight[s].id \in Defaults(queues)
       /\ Answered(s)
       /\ resp'.code = 200
  \/ \E s \in Requests :
       /\ inflight[s].op = "deleteQueue"
       /\ inflight[s].pc = "remove"
       /\ inflight[s].id \in Defaults(queues)
       /\ Answered(s)

\* C18, as amended: when two default-setting requests interleave, each
\* clearing before the other writes, two queues end up default: the
\* writing step of a request marks its queue default and leaves default
\* every queue that was marked since the request's own clearing step; and
\* two defaults stay until the clearing step of a later default-setting
\* request, the write of an updateQueue with isDefault false aimed at one
\* of them, or the removal of one of them by a deleteQueue whose check
\* came before the queue was marked.  Checked under SpecRemoval.
C18_TwoDefaults ==
  [][/\ \A s \in Requests :
          SetStep(s) => Defaults(queues') = Defaults(queues) \cup {Target(s)}
     /\ (Cardinality(Defaults(queues)) >= 2
           /\ Cardinality(Defaults(queues')) < 2)
          => UnsetsDefault]_vars

\* C18, as stated: two defaults stay until a step of a later
\* default-setting request.
C18_UntilDefaultSetting ==
  [][/\ \A s \in Requests :
          SetStep(s) => Defaults(queues') = Defaults(queues) \cup {Target(s)}
     /\ (Cardinality(Defaults(queues)) >= 2
           /\ Cardinality(Defaults(queues')) < 2)
          => \E s \in Requests :
               DefaultSetting(inflight[s]) /\ Steps(s)]_vars

\* Both requests have completed and two queues are default.
C18_Witness ==
  /\ \A s \in Requests : ~Suspended(s)
  /\ Cardinality(Defaults(queues)) = 2

\* C20: under any interleaving of deleteQueue with updateQueue, no queue is
\* removed while its isDefault flag is true.  Checked under SpecRemoval.
C20_NoDefaultRemoved ==
  [][\A q \in DOMAIN queues \ DOMAIN queues' : ~queues[q].isDefault]_vars

\* C19: after any sequence of register, updateUser, addComment and
\* updateTicket, no comment with isInternal = true has an author whose role
\* is customer.  Checked under SpecAuthors.
C19_NoInternalByCustomer ==
  \A id \in DOMAIN tickets : \A i \in DOMAIN tickets[id].comments :
    LET c == tickets[id].comments[i]
    IN c.isInternal
         => ~(c.author \in DOMAIN users /\ users[c.author].role = "customer")

\* C21: in every reachable state a ticket whose status is "resolved" has
\* resolvedAt set and a ticket whose status is "closed" has closedAt set.
\* Checked under SpecLifecycle.
C21_StampedWhenDone ==
  \A id \in DOMAIN tickets :
    /\ tickets[id].status = "resolved" => tickets[id].resolvedAt # NoDate
    /\ tickets[id].status = "closed" => tickets[id].closedAt # NoDate

====
